---- MODULE Spec2Model ----
(***************************************************************************)
(* betteria: rasterize a PDF page by page, binarize every page, pack the   *)
(* binarized pages into one PDF.  The model follows src/betteria/cli.py:   *)
(* the main thread of betteria() / pdf_to_images() is a program counter,   *)
(* the rasterizer subprocess, the thread-pool page tasks and the           *)
(* process-pool binarization tasks are separate actions, and the file      *)
(* system (two temporary directories, the output path) is state.           *)
(* File names are sequences of one-character strings so that glob          *)
(* matching, Path.stem and _page_sort_key are computed as the code does.   *)
(* Progress bars do not change any state modelled here and are left out.   *)
(* A KeyboardInterrupt is modelled at every step the main thread takes or  *)
(* blocks in (the subprocess wait, the two as_completed loops, the two     *)
(* executor shutdowns, every pipeline step), at most one per run: once     *)
(* raised, the run only unwinds.  Directory removal is one atomic step.    *)
(***************************************************************************)
EXTENDS Integers, Sequences, FiniteSets, TLC

\* ------------------------------------------------------------------ bounds
MaxPages == 3
MaxJobs == 2

\* sys.maxsize stands for "no page number"; any value above every page index
sys_maxsize == 2147483647

\* ------------------------------------------------------------ file names
PREFIX == <<"p", "a", "g", "e">>
DASH == "-"
DOT == "."
PNG == <<".", "p", "n", "g">>
TIFF == <<".", "t", "i", "f", "f">>
DigitChars == <<"0", "1", "2", "3", "4", "5", "6", "7", "8", "9">>

IsDigit(ch) ==
    \E i \in 1..Len(DigitChars) : DigitChars[i] = ch

DigitValue(ch) ==
    (CHOOSE i \in 1..Len(DigitChars) : DigitChars[i] = ch) - 1

\* str(n) for n >= 0
RECURSIVE str(_)
str(n) ==
    IF n < 10 THEN <<DigitChars[n + 1]>>
    ELSE str(n \div 10) \o <<DigitChars[(n % 10) + 1]>>

\* int(digits) for a non-empty digit string (leading zeros allowed)
RECURSIVE int(_)
int(ds) ==
    IF Len(ds) = 0 THEN 0
    ELSE 10 * int(SubSeq(ds, 1, Len(ds) - 1)) + DigitValue(ds[Len(ds)])

\* the rasterizer's zero padding of a page number to `width` characters
RECURSIVE ZeroPad(_, _)
ZeroPad(ds, width) ==
    IF Len(ds) >= width THEN ds ELSE ZeroPad(<<"0">> \o ds, width)

\* the file the external tool writes for `page`: <prefix>-<number>.png
PageFile(page, width) ==
    PREFIX \o <<DASH>> \o ZeroPad(str(page), width) \o PNG

\* index of the last occurrence of ch in s, 0 when there is none
RECURSIVE LastIndexOf(_, _)
LastIndexOf(s, ch) ==
    IF Len(s) = 0 THEN 0
    ELSE IF s[Len(s)] = ch THEN Len(s)
    ELSE LastIndexOf(SubSeq(s, 1, Len(s) - 1), ch)

\* Path.stem: the name without its last suffix
stem(name) ==
    LET i == LastIndexOf(name, DOT)
    IN IF i <= 1 THEN name ELSE SubSeq(name, 1, i - 1)

\* str.split("-"): the parts between dashes, in order
RECURSIVE split(_, _)
split(s, sep) ==
    LET i == LastIndexOf(s, sep)
    IN IF i = 0 THEN <<s>>
       ELSE Append(split(SubSeq(s, 1, i - 1), sep), SubSeq(s, i + 1, Len(s)))

\* "".join(ch for ch in part if ch.isdigit())
RECURSIVE digits_of(_)
digits_of(part) ==
    IF Len(part) = 0 THEN <<>>
    ELSE IF IsDigit(part[1]) THEN <<part[1]>> \o digits_of(Tail(part))
    ELSE digits_of(Tail(part))

\* the loop of _page_sort_key over reversed(parts): parts[k], parts[k-1], ...
RECURSIVE key_from_parts(_, _)
key_from_parts(parts, k) ==
    IF k = 0 THEN sys_maxsize
    ELSE IF Len(digits_of(parts[k])) > 0 THEN int(digits_of(parts[k]))
    ELSE key_from_parts(parts, k - 1)

_page_sort_key(name) ==
    LET parts == split(stem(name), DASH)
    IN key_from_parts(parts, Len(parts))

\* Path.glob("page-*.png"): prefix "page-", suffix ".png", anything between
glob_match(name) ==
    /\ Len(name) >= Len(PREFIX) + 1 + Len(PNG)
    /\ SubSeq(name, 1, Len(PREFIX) + 1) = PREFIX \o <<DASH>>
    /\ SubSeq(name, Len(name) - Len(PNG) + 1, Len(name)) = PNG

\* sorted(seq, key=_page_sort_key): a stable insertion sort
RECURSIVE insert_by_key(_, _)
insert_by_key(sortedSeq, name) ==
    IF Len(sortedSeq) = 0 THEN <<name>>
    ELSE IF _page_sort_key(sortedSeq[Len(sortedSeq)]) <= _page_sort_key(name)
         THEN Append(sortedSeq, name)
    ELSE Append(insert_by_key(SubSeq(sortedSeq, 1, Len(sortedSeq) - 1), name),
                sortedSeq[Len(sortedSeq)])

RECURSIVE sorted(_)
sorted(listing) ==
    IF Len(listing) = 0 THEN <<>>
    ELSE insert_by_key(sorted(SubSeq(listing, 1, Len(listing) - 1)),
                       listing[Len(listing)])

\* every order in which the directory may list the files of a set
Listings(files) ==
    {l \in [1..Cardinality(files) -> files] :
        \A i, j \in 1..Cardinality(files) : i # j => l[i] # l[j]}

\* ------------------------------------------------------------------ state
VARIABLES
    entry,          \* the function the caller called: "betteria" | "pdf_to_images"
    args,           \* the arguments: dpi, threshold, use_adaptive, block_size, jobs
    input_exists,   \* whether the input path exists
    output,         \* what is at the output path
    output0,        \* what was at the output path when the run started
    cpu_count,      \* what _available_cpu_count() reports, 0 until first asked
    pad,            \* the width the rasterizer zero-pads page numbers to
    pc,             \* position of the main thread
    exc,            \* the exception in flight or raised to the caller
    pages_dir,      \* raster pages directory: [exists, files]
    tiff_dir,       \* binarized pages directory: [exists, files]
    total_pages,    \* pdf_to_images: total_pages
    worker_target,  \* worker_target of the function at work
    process,        \* the single-worker rasterizer subprocess
    futures,        \* page -> state of its rasterizer task (multi-worker)
    yielded,        \* pages as_completed has already yielded
    png_paths,      \* pdf_to_images' result list
    tiff_paths,     \* betteria: tiff_paths
    whitened,       \* sequential binarization: number of pages whitened so far
    wfutures,       \* index -> state of its binarization task (process pool)
    wyielded,       \* binarization futures as_completed has already yielded
    calls           \* history: how often each external thing was invoked

vars ==
    <<entry, args, input_exists, output, output0, cpu_count, pad, pc, exc,
      pages_dir, tiff_dir, total_pages, worker_target, process, futures,
      yielded, png_paths, tiff_paths, whitened, wfutures, wyielded, calls>>

\* ------------------------------------------------------------- exceptions
Exc(type, what, page, stderr, expected, found) ==
    [type |-> type, what |-> what, page |-> page, stderr |-> stderr,
     expected |-> expected, found |-> found]

NoExc == Exc("none", "", 0, <<>>, 0, 0)

SimpleExc(type, what) == Exc(type, what, 0, <<>>, 0, 0)

KeyboardInterrupt == SimpleExc("KeyboardInterrupt", "")

\* the diagnostic text the rasterizer prints when it fails on `page`
\* (page 0: the whole-document invocation)
StderrText(page) == <<"error", page>>

\* ------------------------------------------------------------------ inputs
DpiValues == {0, 1}
ThresholdValues == {-1, 0, 255, 256}
\* <<use_adaptive, block_size>>: adaptive mode with sizes around the limit,
\* and an even size with adaptive mode off
AdaptiveModes == {<<TRUE, 1>>, <<TRUE, 2>>, <<TRUE, 3>>, <<TRUE, 4>>, <<FALSE, 4>>}

Arguments ==
    {[dpi |-> d, threshold |-> t, use_adaptive |-> m[1], block_size |-> m[2],
      jobs |-> j] :
        d \in DpiValues, t \in ThresholdValues, m \in AdaptiveModes,
        j \in 0..MaxJobs}

DefaultArgs(jobs) ==
    [dpi |-> 150, threshold |-> 128, use_adaptive |-> FALSE, block_size |-> 31,
     jobs |-> jobs]

\* what a caller of pdf_to_images() may have left in out_dir
InitialDirs ==
    {{}, {PageFile(MaxPages + 1, 1)}, {<<"c", "o", "v", "e", "r">> \o PNG}}

NoDir == [exists |-> FALSE, files |-> {}]
NoProcess == [state |-> "none", returncode |-> 0, events |-> <<>>]
NoCalls ==
    [mkdtemp |-> 0, pdfinfo |-> 0, popen |-> 0,
     run |-> [p \in 1..(MaxPages + 1) |-> 0], whiten |-> 0, packer |-> 0]

Init ==
    /\ entry \in {"betteria", "pdf_to_images"}
    /\ IF entry = "betteria"
       THEN /\ args \in Arguments
            /\ output0 \in {"absent", "file", "dir"}
            /\ pages_dir = NoDir
            /\ pc = "validate"
       ELSE /\ args \in {DefaultArgs(j) : j \in 0..MaxJobs}
            /\ output0 = "absent"
            /\ pages_dir \in {[exists |-> TRUE, files |-> f] : f \in InitialDirs}
            /\ pc = "mkdir"
    /\ input_exists \in BOOLEAN
    /\ output = output0
    /\ cpu_count = 0
    /\ pad = 0
    /\ exc = NoExc
    /\ tiff_dir = NoDir
    /\ total_pages = 0
    /\ worker_target = 0
    /\ process = NoProcess
    /\ futures = <<>>
    /\ yielded = {}
    /\ png_paths = <<>>
    /\ tiff_paths = <<>>
    /\ whitened = 0
    /\ wfutures = <<>>
    /\ wyielded = {}
    /\ calls = NoCalls

inputs == <<entry, args, input_exists, output0>>
fsVars == <<output, pages_dir, tiff_dir>>
rasterVars == <<total_pages, pad, process, futures, yielded, png_paths>>
whitenVars == <<tiff_paths, whitened, wfutures, wyielded>>

\* where an exception leaving pdf_to_images() goes next
AfterPdfToImages == IF entry = "betteria" THEN "exit_tiff" ELSE "done"

\* ---------------------------------------------------------------- betteria
\* faulty variant: the block size check without the parity test
ConfigError_NoParity(a) ==
    IF a.dpi <= 0 THEN "dpi"
    ELSE IF ~(0 <= a.threshold /\ a.threshold <= 255) THEN "threshold"
    ELSE IF a.use_adaptive /\ a.block_size < 3 THEN "block_size"
    ELSE "ok"

\* the three configuration checks, in the order of the code
ConfigError(a) ==
    IF a.dpi <= 0 THEN "dpi"
    ELSE IF ~(0 <= a.threshold /\ a.threshold <= 255) THEN "threshold"
    ELSE IF a.use_adaptive /\ (a.block_size < 3 \/ a.block_size % 2 = 0)
         THEN "block_size"
    ELSE "ok"

Validate ==
    /\ pc = "validate"
    /\ IF ConfigError(args) # "ok"
       THEN /\ exc' = SimpleExc("ValueError", ConfigError(args))
            /\ pc' = "done"
       ELSE /\ pc' = "paths"
            /\ UNCHANGED exc
    /\ UNCHANGED <<inputs, fsVars, rasterVars, whitenVars, cpu_count,
                   worker_target, calls>>

ResolvePaths ==
    /\ pc = "paths"
    /\ IF ~input_exists
       THEN /\ exc' = SimpleExc("FileNotFoundError", "input")
            /\ pc' = "done"
       ELSE IF output = "dir"
       THEN /\ exc' = SimpleExc("IsADirectoryError", "output")
            /\ pc' = "done"
       ELSE /\ pc' = "enter_pages"
            /\ UNCHANGED exc
    /\ UNCHANGED <<inputs, fsVars, rasterVars, whitenVars, cpu_count,
                   worker_target, calls>>

\* with tempfile.TemporaryDirectory(prefix="betteria-pages-")
EnterPagesDir ==
    /\ pc = "enter_pages"
    /\ pages_dir' = [exists |-> TRUE, files |-> {}]
    /\ calls' = [calls EXCEPT !.mkdtemp = @ + 1]
    /\ pc' = "enter_tiff"
    /\ UNCHANGED <<inputs, output, tiff_dir, rasterVars, whitenVars, cpu_count,
                   worker_target, exc>>

\* with tempfile.TemporaryDirectory(prefix="betteria-tiff-")
EnterTiffDir ==
    /\ pc = "enter_tiff"
    /\ tiff_dir' = [exists |-> TRUE, files |-> {}]
    /\ calls' = [calls EXCEPT !.mkdtemp = @ + 1]
    /\ pc' = "mkdir"
    /\ UNCHANGED <<inputs, output, pages_dir, rasterVars, whitenVars, cpu_count,
                   worker_target, exc>>

\* ----------------------------------------------------------- pdf_to_images
\* target_dir.mkdir(parents=True, exist_ok=True)
MakeTargetDir ==
    /\ pc = "mkdir"
    /\ pages_dir' = [pages_dir EXCEPT !.exists = TRUE]
    /\ pc' = "count"
    /\ UNCHANGED <<inputs, output, tiff_dir, rasterVars, whitenVars, cpu_count,
                   worker_target, exc, calls>>

\* get_page_count(): the outcomes of pdfinfo
PdfinfoOutcomes == {"pages", "missing", "failed", "no_pages_line"}

get_page_count(outcome, n, width) ==
    /\ pc = "count"
    /\ IF ~input_exists
       THEN /\ exc' = SimpleExc("FileNotFoundError", "input")
            /\ pc' = AfterPdfToImages
            /\ UNCHANGED <<total_pages, pad, calls>>
       ELSE /\ calls' = [calls EXCEPT !.pdfinfo = @ + 1]
            /\ IF outcome = "pages"
               THEN /\ total_pages' = n
                    /\ pad' = width
                    /\ pc' = "workers"
                    /\ UNCHANGED exc
               ELSE /\ exc' = SimpleExc("RuntimeError", outcome)
                    /\ pc' = AfterPdfToImages
                    /\ UNCHANGED <<total_pages, pad>>
    /\ UNCHANGED <<inputs, fsVars, process, futures, yielded, png_paths,
                   whitenVars, cpu_count, worker_target>>

Min(a, b) == IF a <= b THEN a ELSE b
Max(a, b) == IF a >= b THEN a ELSE b

\* faulty variant: the requested count is not clamped to the page count
RasterWorkerTarget_Unclamped(jobs, cpus, total) ==
    Max(1, IF jobs > 0 THEN jobs ELSE cpus)

\* lines 223-224: worker_target of pdf_to_images
RasterWorkerTarget(jobs, cpus, total) ==
    Max(1, Min(IF jobs > 0 THEN jobs ELSE cpus, total))

\* _available_cpu_count(): asked once per run, the same answer afterwards
CpuCounts == {1, 2}

CpuAnswers == IF cpu_count = 0 THEN CpuCounts ELSE {cpu_count}

ChooseRasterWorkers ==
    /\ pc = "workers"
    /\ \E c \in (IF args.jobs > 0 THEN {cpu_count} ELSE CpuAnswers) :
        /\ cpu_count' = c
        /\ worker_target' = RasterWorkerTarget(args.jobs, c, total_pages)
    /\ pc' = IF worker_target' <= 1 THEN "popen" ELSE "submit"
    /\ UNCHANGED <<inputs, fsVars, rasterVars, whitenVars, exc, calls>>

\* --- single-worker mode
Popen(found) ==
    /\ pc = "popen"
    /\ IF found
       THEN /\ process' = [state |-> "running", returncode |-> 0,
                           events |-> <<"popen">>]
            /\ calls' = [calls EXCEPT !.popen = @ + 1]
            /\ pc' = "wait"
            /\ UNCHANGED exc
       ELSE /\ exc' = SimpleExc("RuntimeError", "rasterizer_missing")
            /\ pc' = AfterPdfToImages
            /\ UNCHANGED <<process, calls>>
    /\ UNCHANGED <<inputs, fsVars, total_pages, pad, futures, yielded,
                   png_paths, whitenVars, cpu_count, worker_target>>

\* the page numbers a whole-document invocation may leave files for:
\* every page, a prefix of the pages, one page too many, a gap
SingleWrites(n) ==
    {1..k : k \in 0..n} \cup {1..(n + 1)} \cup {(1..(n - 1)) \cup {n + 1}}

\* the subprocess ends: it has written `written` and exits with `rc`
\* (after terminate() it ends with the signal's code); nothing can be
\* written into a directory that is gone
ProcessExits(written, rc) ==
    /\ process.state = "running"
    /\ process' = [process EXCEPT !.state = "exited", !.returncode = rc]
    /\ pages_dir' = IF pages_dir.exists
                    THEN [pages_dir EXCEPT
                            !.files = @ \cup {PageFile(p, pad) : p \in written}]
                    ELSE pages_dir
    /\ UNCHANGED <<inputs, output, tiff_dir, total_pages, pad, futures, yielded,
                   png_paths, whitenVars, cpu_count, worker_target, pc, exc,
                   calls>>

\* process.wait() returns
Wait ==
    /\ pc = "wait"
    /\ process.state = "exited"
    /\ process' = [process EXCEPT !.events = Append(@, "wait")]
    /\ pc' = "stderr"
    /\ UNCHANGED <<inputs, fsVars, total_pages, pad, futures, yielded,
                   png_paths, whitenVars, cpu_count, worker_target, exc, calls>>

\* process.wait() gives up while the subprocess is still running and raises
\* TimeoutExpired, as the Popen of test_pdf_to_images_generates_paths does on
\* its first call; the try statement of lines 246-255 has a handler for
\* KeyboardInterrupt only, so the exception leaves pdf_to_images()
WaitTimesOut ==
    /\ pc = "wait"
    /\ process.state = "running"
    /\ process' = [process EXCEPT !.events = Append(@, "wait_timeout")]
    /\ exc' = SimpleExc("TimeoutExpired", "wait")
    /\ pc' = AfterPdfToImages
    /\ UNCHANGED <<inputs, fsVars, total_pages, pad, futures, yielded,
                   png_paths, whitenVars, cpu_count, worker_target, calls>>

\* except KeyboardInterrupt: process.terminate()
WaitInterrupted ==
    /\ pc = "wait"
    /\ process' = [process EXCEPT !.events = Append(@, "terminate")]
    /\ pc' = "int_wait"
    /\ UNCHANGED <<inputs, fsVars, total_pages, pad, futures, yielded,
                   png_paths, whitenVars, cpu_count, worker_target, exc, calls>>

\* faulty variant: the handler does not wait for the terminated subprocess
InterruptWait_NoWait ==
    /\ pc = "int_wait"
    /\ process' = [process EXCEPT !.events = Append(@, "wait")]
    /\ pc' = "int_read"
    /\ UNCHANGED <<inputs, fsVars, total_pages, pad, futures, yielded,
                   png_paths, whitenVars, cpu_count, worker_target, exc, calls>>

\* process.wait() in the handler
InterruptWait ==
    /\ pc = "int_wait"
    /\ process.state = "exited"
    /\ process' = [process EXCEPT !.events = Append(@, "wait")]
    /\ pc' = "int_read"
    /\ UNCHANGED <<inputs, fsVars, total_pages, pad, futures, yielded,
                   png_paths, whitenVars, cpu_count, worker_target, exc, calls>>

\* stderr read and closed, RuntimeError("Rasterization interrupted: ...")
InterruptRaise ==
    /\ pc = "int_read"
    /\ process' = [process EXCEPT !.events = @ \o <<"read", "close">>]
    /\ exc' = Exc("RuntimeError", "interrupted", 0, StderrText(0), 0, 0)
    /\ pc' = AfterPdfToImages
    /\ UNCHANGED <<inputs, fsVars, total_pages, pad, futures, yielded,
                   png_paths, whitenVars, cpu_count, worker_target, calls>>

\* lines 260-264: read stderr, check the return code
ReadStderr ==
    /\ pc = "stderr"
    /\ process' = [process EXCEPT !.events = @ \o <<"read", "close">>]
    /\ IF process.returncode # 0
       THEN /\ exc' = Exc("RuntimeError", "rasterizer_failed", 0,
                          StderrText(0), 0, 0)
            /\ pc' = AfterPdfToImages
       ELSE /\ pc' = "glob"
            /\ UNCHANGED exc
    /\ UNCHANGED <<inputs, fsVars, total_pages, pad, futures, yielded,
                   png_paths, whitenVars, cpu_count, worker_target, calls>>

\* --- multi-worker mode: a ThreadPoolExecutor of worker_target threads
Pages == 1..total_pages
Running(fs) == {p \in DOMAIN fs : fs[p] = "running"}
Pending(fs) == {p \in DOMAIN fs : fs[p] = "pending"}
Unfinished(fs) == Running(fs) \cup Pending(fs)

\* executor.submit(_run_rasterizer_page, ..., page) for page in 1..total_pages
SubmitPages ==
    /\ pc = "submit"
    /\ futures' = [p \in Pages |-> "pending"]
    /\ pc' = "loop"
    /\ UNCHANGED <<inputs, fsVars, total_pages, pad, process, yielded,
                   png_paths, whitenVars, cpu_count, worker_target, exc, calls>>

\* _build_rasterizer_cmd with a page: "-f", str(page), "-l", str(page)
PageRange(page) == [first |-> page, last |-> page]

\* faulty variant: a worker also takes up a page whose invocation failed
StartPage_Retry(p) ==
    /\ \/ /\ p \in Pending(futures)
          /\ \A q \in Pending(futures) : p <= q
       \/ futures[p] \in {"nonzero", "raised"}
    /\ Cardinality(Running(futures)) < worker_target
    /\ futures' = [futures EXCEPT ![p] = "running"]
    /\ calls' = [calls EXCEPT !.run[p] = @ + 1]
    /\ UNCHANGED <<inputs, fsVars, total_pages, pad, process, yielded,
                   png_paths, whitenVars, cpu_count, worker_target, pc, exc>>

\* a free worker thread takes the next work item of the queue (FIFO) and
\* calls _run_rasterizer_page: subprocess.run([... "-f", page, "-l", page ...])
StartPage(p) ==
    /\ p \in Pending(futures)
    /\ \A q \in Pending(futures) : p <= q
    /\ Cardinality(Running(futures)) < worker_target
    /\ futures' = [futures EXCEPT ![p] = "running"]
    /\ calls' = [calls EXCEPT !.run[p] = @ + 1]
    /\ UNCHANGED <<inputs, fsVars, total_pages, pad, process, yielded,
                   png_paths, whitenVars, cpu_count, worker_target, pc, exc>>

\* how a page task ends: the tool exits 0 having written its file ("ok") or
\* nothing ("ok_nothing"), exits non-zero ("nonzero"), or cannot be started
\* and the task raises ("raised"); the tool writes the pages of its range,
\* and nothing into a directory that is gone
PageOutcomes == {"ok", "ok_nothing", "nonzero", "raised"}

FinishPage(p, outcome) ==
    /\ p \in Running(futures)
    /\ futures' = [futures EXCEPT
                     ![p] = IF outcome = "ok_nothing" THEN "ok" ELSE outcome]
    /\ pages_dir' = IF outcome = "ok" /\ pages_dir.exists
                    THEN [pages_dir EXCEPT
                            !.files = @ \cup
                                {PageFile(q, pad) :
                                   q \in PageRange(p).first..PageRange(p).last}]
                    ELSE pages_dir
    /\ UNCHANGED <<inputs, output, tiff_dir, total_pages, pad, process, yielded,
                   png_paths, whitenVars, cpu_count, worker_target, pc, exc,
                   calls>>

\* faulty variant: nothing is cancelled
CancelAll_None(fs) ==
    fs

\* for pending in futures: pending.cancel()
CancelAll(fs) ==
    [p \in DOMAIN fs |-> IF fs[p] = "pending" THEN "cancelled" ELSE fs[p]]

\* the exception the loop raises for the future of page p
PageFailure(p) ==
    IF futures[p] = "nonzero"
    THEN Exc("RuntimeError", "rasterizer_failed", p, StderrText(p), 0, 0)
    ELSE SimpleExc("RuntimeError", "rasterizer_missing")

\* one turn of `for future in as_completed(futures)` (lines 297-313)
AsCompleted(p) ==
    /\ pc = "loop"
    /\ p \in DOMAIN futures \ yielded
    /\ futures[p] \in {"ok", "nonzero", "raised"}
    /\ yielded' = yielded \cup {p}
    /\ IF futures[p] = "ok"
       THEN UNCHANGED <<futures, exc, pc>>
       ELSE /\ futures' = CancelAll(futures)
            /\ exc' = PageFailure(p)
            /\ pc' = "pool_exit"
    /\ UNCHANGED <<inputs, fsVars, total_pages, pad, process, png_paths,
                   whitenVars, cpu_count, worker_target, calls>>

\* as_completed is exhausted: the for loop ends
LoopEnds ==
    /\ pc = "loop"
    /\ yielded = DOMAIN futures
    /\ pc' = "pool_exit"
    /\ UNCHANGED <<inputs, fsVars, rasterVars, whitenVars, cpu_count,
                   worker_target, exc, calls>>

\* except KeyboardInterrupt: cancel every future, re-raise (lines 314-317)
LoopInterrupted ==
    /\ pc = "loop"
    /\ futures' = CancelAll(futures)
    /\ exc' = KeyboardInterrupt
    /\ pc' = "pool_exit"
    /\ UNCHANGED <<inputs, fsVars, total_pages, pad, process, yielded,
                   png_paths, whitenVars, cpu_count, worker_target, calls>>

\* ThreadPoolExecutor.__exit__: shutdown(wait=True) returns once no task is
\* running or waiting to run
PoolExit ==
    /\ pc = "pool_exit"
    /\ Unfinished(futures) = {}
    /\ pc' = IF exc = NoExc THEN "glob" ELSE AfterPdfToImages
    /\ UNCHANGED <<inputs, fsVars, rasterVars, whitenVars, cpu_count,
                   worker_target, exc, calls>>

\* a KeyboardInterrupt while the main thread is in ThreadPoolExecutor.__exit__
\* joining the worker threads: the join is abandoned, the interrupt replaces
\* whatever was being raised and leaves pdf_to_images() at once
PoolExitInterrupted ==
    /\ pc = "pool_exit"
    /\ exc # KeyboardInterrupt
    /\ exc' = KeyboardInterrupt
    /\ pc' = AfterPdfToImages
    /\ UNCHANGED <<inputs, fsVars, rasterVars, whitenVars, cpu_count,
                   worker_target, calls>>

\* --- both modes: lines 266-275 and 319-328
\* faulty variant: the directory listing is returned as it comes
GlobSorted_Unsorted(listing) ==
    listing

\* sorted(target_dir.glob("page-*.png"), key=_page_sort_key)
GlobSorted(listing) ==
    sorted(listing)

GlobSort ==
    /\ pc = "glob"
    /\ \E listing \in Listings({f \in pages_dir.files : glob_match(f)}) :
        png_paths' = GlobSorted(listing)
    /\ pc' = "check"
    /\ UNCHANGED <<inputs, fsVars, total_pages, pad, process, futures, yielded,
                   whitenVars, cpu_count, worker_target, exc, calls>>

\* faulty variant: only too few files are a mismatch
CountMismatch_FewerOnly(found, expected) ==
    found < expected

CountMismatch(found, expected) ==
    found # expected

CheckCount ==
    /\ pc = "check"
    /\ IF CountMismatch(Len(png_paths), total_pages)
       THEN /\ exc' = Exc("RuntimeError", "mismatch", 0, <<>>, total_pages,
                          Len(png_paths))
            /\ pc' = AfterPdfToImages
       ELSE /\ pc' = IF entry = "betteria" THEN "tiff_paths" ELSE "done"
            /\ UNCHANGED exc
    /\ UNCHANGED <<inputs, fsVars, rasterVars, whitenVars, cpu_count,
                   worker_target, calls>>

\* ------------------------------------------------- betteria: binarization
\* tiff_dir / (png_path.stem + ".tiff")
TiffName(png) == stem(png) \o TIFF

\* lines 459-460: worker_target of betteria
WhitenWorkerTarget(jobs, cpus, count) ==
    Min(IF jobs > 0 THEN jobs ELSE cpus, count)

\* lines 452-462
BuildTiffPaths ==
    /\ pc = "tiff_paths"
    /\ tiff_paths' = [i \in 1..Len(png_paths) |-> TiffName(png_paths[i])]
    /\ IF Len(png_paths) = 0
       THEN /\ exc' = SimpleExc("RuntimeError", "no_pages")
            /\ pc' = "exit_tiff"
            /\ UNCHANGED <<cpu_count, worker_target>>
       ELSE /\ \E c \in (IF args.jobs > 0 THEN {cpu_count} ELSE CpuAnswers) :
                /\ cpu_count' = c
                /\ worker_target' =
                       WhitenWorkerTarget(args.jobs, c, Len(png_paths))
            /\ pc' = IF worker_target' <= 1 THEN "whiten_seq" ELSE "whiten_submit"
            /\ UNCHANGED exc
    /\ UNCHANGED <<inputs, fsVars, rasterVars, whitened, wfutures, wyielded,
                   calls>>

\* one turn of the sequential loop (lines 466-476): whiten_and_save_as_tiff
\* writes the page's TIFF or raises
WhitenNext(ok) ==
    /\ pc = "whiten_seq"
    /\ whitened < Len(png_paths)
    /\ calls' = [calls EXCEPT !.whiten = @ + 1]
    /\ IF ok
       THEN /\ tiff_dir' = [tiff_dir EXCEPT
                              !.files = @ \cup {tiff_paths[whitened + 1]}]
            /\ whitened' = whitened + 1
            /\ UNCHANGED <<exc, pc>>
       ELSE /\ exc' = Exc("RuntimeError", "whiten_failed", whitened + 1, <<>>,
                          0, 0)
            /\ pc' = "exit_tiff"
            /\ UNCHANGED <<tiff_dir, whitened>>
    /\ UNCHANGED <<inputs, output, pages_dir, rasterVars, tiff_paths, wfutures,
                   wyielded, cpu_count, worker_target>>

WhitenSeqEnds ==
    /\ pc = "whiten_seq"
    /\ whitened = Len(png_paths)
    /\ pc' = "pack"
    /\ UNCHANGED <<inputs, fsVars, rasterVars, whitenVars, cpu_count,
                   worker_target, exc, calls>>

\* --- the ProcessPoolExecutor of worker_target processes (lines 481-500)
SubmitWhiten ==
    /\ pc = "whiten_submit"
    /\ wfutures' = [i \in 1..Len(png_paths) |-> "pending"]
    /\ pc' = "whiten_loop"
    /\ UNCHANGED <<inputs, fsVars, rasterVars, tiff_paths, whitened, wyielded,
                   cpu_count, worker_target, exc, calls>>

StartWhiten(i) ==
    /\ i \in Pending(wfutures)
    /\ \A j \in Pending(wfutures) : i <= j
    /\ Cardinality(Running(wfutures)) < worker_target
    /\ wfutures' = [wfutures EXCEPT ![i] = "running"]
    /\ calls' = [calls EXCEPT !.whiten = @ + 1]
    /\ UNCHANGED <<inputs, fsVars, rasterVars, tiff_paths, whitened, wyielded,
                   cpu_count, worker_target, pc, exc>>

FinishWhiten(i, ok) ==
    /\ i \in Running(wfutures)
    /\ wfutures' = [wfutures EXCEPT ![i] = IF ok THEN "ok" ELSE "failed"]
    /\ tiff_dir' = IF ok /\ tiff_dir.exists
                   THEN [tiff_dir EXCEPT !.files = @ \cup {tiff_paths[i]}]
                   ELSE tiff_dir
    /\ UNCHANGED <<inputs, output, pages_dir, rasterVars, tiff_paths, whitened,
                   wyielded, cpu_count, worker_target, pc, exc, calls>>

\* faulty variant: the loop does not ask the future for its result
WhitenAsCompleted_NoResult(i) ==
    /\ pc = "whiten_loop"
    /\ i \in DOMAIN wfutures \ wyielded
    /\ wfutures[i] \in {"ok", "failed"}
    /\ wyielded' = wyielded \cup {i}
    /\ UNCHANGED <<inputs, fsVars, rasterVars, tiff_paths, whitened, wfutures,
                   cpu_count, worker_target, calls, exc, pc>>

\* one turn of `for future in as_completed(futures): future.result()`
WhitenAsCompleted(i) ==
    /\ pc = "whiten_loop"
    /\ i \in DOMAIN wfutures \ wyielded
    /\ wfutures[i] \in {"ok", "failed"}
    /\ wyielded' = wyielded \cup {i}
    /\ IF wfutures[i] = "ok"
       THEN UNCHANGED <<exc, pc>>
       ELSE /\ exc' = Exc("RuntimeError", "whiten_failed", i, <<>>, 0, 0)
            /\ pc' = "whiten_exit"
    /\ UNCHANGED <<inputs, fsVars, rasterVars, tiff_paths, whitened, wfutures,
                   cpu_count, worker_target, calls>>

WhitenLoopEnds ==
    /\ pc = "whiten_loop"
    /\ wyielded = DOMAIN wfutures
    /\ pc' = "whiten_exit"
    /\ UNCHANGED <<inputs, fsVars, rasterVars, whitenVars, cpu_count,
                   worker_target, exc, calls>>

\* a KeyboardInterrupt in the loop: nothing catches it before the executor's
\* __exit__
WhitenLoopInterrupted ==
    /\ pc = "whiten_loop"
    /\ exc' = KeyboardInterrupt
    /\ pc' = "whiten_exit"
    /\ UNCHANGED <<inputs, fsVars, rasterVars, whitenVars, cpu_count,
                   worker_target, calls>>

\* ProcessPoolExecutor.__exit__: shutdown(wait=True)
WhitenPoolExit ==
    /\ pc = "whiten_exit"
    /\ Unfinished(wfutures) = {}
    /\ pc' = IF exc = NoExc THEN "pack" ELSE "exit_tiff"
    /\ UNCHANGED <<inputs, fsVars, rasterVars, whitenVars, cpu_count,
                   worker_target, exc, calls>>

\* a KeyboardInterrupt while the main thread is in
\* ProcessPoolExecutor.__exit__: the wait is abandoned
WhitenPoolExitInterrupted ==
    /\ pc = "whiten_exit"
    /\ exc # KeyboardInterrupt
    /\ exc' = KeyboardInterrupt
    /\ pc' = "exit_tiff"
    /\ UNCHANGED <<inputs, fsVars, rasterVars, whitenVars, cpu_count,
                   worker_target, calls>>

\* ------------------------------------------------ convert_tiffs_to_pdf
\* lines 368-375: the empty-list check, then output.open("wb") creates or
\* truncates the file (or fails, e.g. for lack of permission)
PackerOpen(opened) ==
    /\ pc = "pack"
    /\ calls' = [calls EXCEPT !.packer = @ + 1]
    /\ IF Len(tiff_paths) = 0
       THEN /\ exc' = SimpleExc("ValueError", "no_tiffs")
            /\ pc' = "exit_tiff"
            /\ UNCHANGED output
       ELSE IF ~opened
       THEN /\ exc' = SimpleExc("OSError", "open")
            /\ pc' = "exit_tiff"
            /\ UNCHANGED output
       ELSE /\ output' = "empty"
            /\ pc' = "pack_write"
            /\ UNCHANGED exc
    /\ UNCHANGED <<inputs, pages_dir, tiff_dir, rasterVars, whitenVars,
                   cpu_count, worker_target>>

\* line 376: file.write(img2pdf.convert(paths)); the file is closed on the
\* way out of the with block either way
PackerWrite(converted) ==
    /\ pc = "pack_write"
    /\ IF converted
       THEN /\ output' = "pdf"
            /\ UNCHANGED exc
       ELSE /\ exc' = SimpleExc("Exception", "img2pdf")
            /\ UNCHANGED output
    /\ pc' = "exit_tiff"
    /\ UNCHANGED <<inputs, pages_dir, tiff_dir, rasterVars, whitenVars,
                   cpu_count, worker_target, calls>>

\* ------------------------------------------------------ leaving betteria
\* TemporaryDirectory.__exit__ of the inner with block
ExitTiffDir ==
    /\ pc = "exit_tiff"
    /\ tiff_dir' = NoDir
    /\ pc' = "exit_pages"
    /\ UNCHANGED <<inputs, output, pages_dir, rasterVars, whitenVars, cpu_count,
                   worker_target, exc, calls>>

\* faulty variant: the directory is removed at the end of the function only
ExitPagesDir_OnSuccessOnly ==
    /\ pc = "exit_pages"
    /\ pages_dir' = IF exc = NoExc THEN NoDir ELSE pages_dir
    /\ pc' = "done"
    /\ UNCHANGED <<inputs, output, tiff_dir, rasterVars, whitenVars, cpu_count,
                   worker_target, exc, calls>>

\* TemporaryDirectory.__exit__ of the outer with block, then return or raise
ExitPagesDir ==
    /\ pc = "exit_pages"
    /\ pages_dir' = NoDir
    /\ pc' = "done"
    /\ UNCHANGED <<inputs, output, tiff_dir, rasterVars, whitenVars, cpu_count,
                   worker_target, exc, calls>>

\* a KeyboardInterrupt at a step that has no handler of its own: it
\* propagates to the enclosing with blocks
InterruptTarget ==
    CASE pc \in {"validate", "paths", "enter_pages"} -> "done"
      [] pc = "enter_tiff" -> "exit_pages"
      [] pc \in {"mkdir", "count", "workers", "popen", "stderr", "submit",
                 "glob", "check"} -> AfterPdfToImages
      [] pc \in {"tiff_paths", "whiten_seq", "whiten_submit", "pack",
                 "pack_write"} -> "exit_tiff"
      [] OTHER -> "none"

Interrupt ==
    /\ InterruptTarget # "none"
    /\ exc' = KeyboardInterrupt
    /\ pc' = InterruptTarget
    /\ UNCHANGED <<inputs, fsVars, rasterVars, whitenVars, cpu_count,
                   worker_target, calls>>

Next ==
    \/ Validate
    \/ ResolvePaths
    \/ EnterPagesDir
    \/ EnterTiffDir
    \/ MakeTargetDir
    \/ \E o \in PdfinfoOutcomes, n \in 0..MaxPages, w \in {1, 2} :
          get_page_count(o, n, w)
    \/ ChooseRasterWorkers
    \/ \E found \in BOOLEAN : Popen(found)
    \/ \E w \in SingleWrites(total_pages), rc \in {0, 1} : ProcessExits(w, rc)
    \/ Wait
    \/ WaitInterrupted
    \/ InterruptWait
    \/ InterruptRaise
    \/ ReadStderr
    \/ SubmitPages
    \/ \E p \in DOMAIN futures : StartPage(p)
    \/ \E p \in DOMAIN futures, o \in PageOutcomes : FinishPage(p, o)
    \/ \E p \in DOMAIN futures : AsCompleted(p)
    \/ LoopEnds
    \/ LoopInterrupted
    \/ PoolExit
    \/ PoolExitInterrupted
    \/ GlobSort
    \/ CheckCount
    \/ BuildTiffPaths
    \/ \E ok \in BOOLEAN : WhitenNext(ok)
    \/ WhitenSeqEnds
    \/ SubmitWhiten
    \/ \E i \in DOMAIN wfutures : StartWhiten(i)
    \/ \E i \in DOMAIN wfutures, ok \in BOOLEAN : FinishWhiten(i, ok)
    \/ \E i \in DOMAIN wfutures : WhitenAsCompleted(i)
    \/ WhitenLoopEnds
    \/ WhitenLoopInterrupted
    \/ WhitenPoolExit
    \/ WhitenPoolExitInterrupted
    \/ \E opened \in BOOLEAN : PackerOpen(opened)
    \/ \E converted \in BOOLEAN : PackerWrite(converted)
    \/ ExitTiffDir
    \/ ExitPagesDir
    \/ Interrupt

Spec == Init /\ [][Next]_vars

\* the same program driven by a Popen whose wait() can time out
NextFakePopen ==
    \/ Next
    \/ WaitTimesOut

SpecFakePopen == Init /\ [][NextFakePopen]_vars

\* ------------------------------------------------------------------ claims
\* pdf_to_images() has just returned its list to the caller
JustReturned ==
    \/ entry = "pdf_to_images" /\ pc = "done" /\ exc = NoExc
    \/ pc = "tiff_paths"

\* the run used the thread pool (multi-worker rasterization)
MultiWorker == DOMAIN futures # {}

\* the page image files now in the target directory
Matching == {f \in pages_dir.files : glob_match(f)}

Keys(paths) == {_page_sort_key(paths[i]) : i \in 1..Len(paths)}

\* C1: when betteria() has returned or raised, on whatever path, neither
\* temporary directory exists any more.
C1_TempDirsRemoved ==
    (entry = "betteria" /\ pc = "done") =>
        (pages_dir = NoDir /\ tiff_dir = NoDir)

C1_Witness ==
    /\ entry = "betteria"
    /\ pc = "done"
    /\ calls.mkdtemp = 2
    /\ exc = KeyboardInterrupt
    /\ \E i \in DOMAIN wfutures : wfutures[i] = "ok"

\* C2 (as claimed): a run of betteria() that started with nothing at the
\* output path and ended in a failure leaves nothing at the output path.
C2_NoOutputOnFailure ==
    (entry = "betteria" /\ pc = "done" /\ output0 = "absent" /\ exc # NoExc) =>
        output = "absent"

\* C3: in multi-worker mode the returned list is in ascending order of the
\* page index _page_sort_key recovers, and for the files the rasterizer
\* names (zero-padded or not) that index is the page number.
C3_PageOrder ==
    (MultiWorker /\ JustReturned) =>
        /\ \A i \in 1..(Len(png_paths) - 1) :
              _page_sort_key(png_paths[i]) <= _page_sort_key(png_paths[i + 1])
        /\ \A i \in 1..Len(png_paths) :
              \A p \in 1..(MaxPages + 1) :
                  png_paths[i] = PageFile(p, pad) =>
                      _page_sort_key(png_paths[i]) = p

C3_Witness ==
    /\ MultiWorker
    /\ JustReturned
    /\ pad = 2
    /\ Len(png_paths) = 3
    /\ png_paths[3] = PageFile(3, 2)

\* C4 (as claimed): whenever pdf_to_images() returns for a page count
\* N >= 1, the list has N paths and their recovered indices are exactly 1..N.
C4_ExactlyPages ==
    (JustReturned /\ total_pages >= 1) =>
        /\ Len(png_paths) = total_pages
        /\ Keys(png_paths) = 1..total_pages

\* C5: pdf_to_images() returns only when the number of page image files in
\* the target directory equals the page count, the list holding all of
\* them; a mismatch error names the expected and the found count.
C5_CountChecked ==
    /\ JustReturned =>
          /\ Cardinality(Matching) = total_pages
          /\ Len(png_paths) = total_pages
    /\ exc.what = "mismatch" =>
          /\ exc.type = "RuntimeError"
          /\ exc.expected = total_pages
          /\ exc.found # exc.expected
          /\ pages_dir.exists => exc.found = Cardinality(Matching)

C5_Witness ==
    /\ pc = "done"
    /\ exc.what = "mismatch"
    /\ exc.found > exc.expected
    /\ MultiWorker

\* a rasterizer failure raised by the thread-pool loop
PoolFailure ==
    MultiWorker /\ exc.what \in {"rasterizer_failed", "rasterizer_missing"}

FailedPage(p) == futures[p] \in {"nonzero", "raised"}

\* C6 (as claimed): the failure raised carries the failing page's number
\* and that page's diagnostic text, whichever way the page task failed.
C6_CarriesPage ==
    PoolFailure =>
        \E p \in yielded :
            /\ FailedPage(p)
            /\ exc.page = p
            /\ exc.stderr = StderrText(p)

\* C6 (amended): once the loop has observed a page failure, no task is left
\* waiting, a cancelled task was never invoked, and the exception is that of
\* the one failed page the loop has seen: with page number and diagnostic
\* text for a non-zero exit, the task's own exception when the task raised.
C6_FirstFailure ==
    PoolFailure =>
        /\ Pending(futures) = {}
        /\ \A p \in DOMAIN futures : futures[p] = "cancelled" => calls.run[p] = 0
        /\ \E p \in yielded :
              /\ FailedPage(p)
              /\ \A q \in yielded \ {p} : futures[q] = "ok"
              /\ exc = IF futures[p] = "nonzero"
                       THEN Exc("RuntimeError", "rasterizer_failed", p,
                                StderrText(p), 0, 0)
                       ELSE SimpleExc("RuntimeError", "rasterizer_missing")

C6_Witness ==
    /\ PoolFailure
    /\ pc = "done"
    /\ exc.page = 1
    /\ \E p \in DOMAIN futures : futures[p] = "cancelled"
    /\ \E p \in DOMAIN futures \ yielded : FailedPage(p)

\* C7 (as claimed): once a binarization task of the process pool has
\* failed and the failure is being raised, no further binarization task is
\* started.
C7_NoWhitenAfterFailure ==
    [][(pc = "whiten_exit" /\ exc.what = "whiten_failed") =>
          calls'.whiten = calls.whiten]_vars

\* C8 (as claimed): once a KeyboardInterrupt is being raised out of a
\* fan-out, no waiting task is started and no rasterizer invocation in
\* flight runs on to a normal end.
C8_InterruptStopsWork ==
    [][(pc \in {"pool_exit", "whiten_exit"} /\ exc = KeyboardInterrupt) =>
          /\ calls'.run = calls.run
          /\ calls'.whiten = calls.whiten
          /\ \A p \in DOMAIN futures : futures'[p] = "ok" => futures[p] = "ok"]_vars

IsPrefix(a, b) ==
    Len(a) <= Len(b) /\ a = SubSeq(b, 1, Len(a))

Terminated == \E i \in DOMAIN process.events : process.events[i] = "terminate"

Reaped == \E i \in DOMAIN process.events : process.events[i] = "wait"

InterruptSequence == <<"popen", "terminate", "wait", "read", "close">>

\* C9: after an interrupt of the single-worker wait the subprocess is sent
\* terminate, then waited on until it has exited, then its stderr is read,
\* then RuntimeError("Rasterization interrupted") is raised; no list is
\* returned.
C9_InterruptOrder ==
    Terminated =>
        /\ IsPrefix(process.events, InterruptSequence)
        /\ Reaped => process.state = "exited"
        /\ ~JustReturned
        /\ pc \notin {"int_wait", "int_read"} =>
              /\ process.events = InterruptSequence
              /\ exc = Exc("RuntimeError", "interrupted", 0, StderrText(0), 0, 0)

C9_Witness ==
    /\ Terminated
    /\ pc = "done"
    /\ entry = "betteria"
    /\ exc.what = "interrupted"

\* the configurations the claim calls invalid
InvalidConfig(a) ==
    \/ a.dpi <= 0
    \/ a.threshold < 0
    \/ a.threshold > 255
    \/ a.use_adaptive /\ (a.block_size < 3 \/ a.block_size % 2 = 0)

ConfigErrors == {"dpi", "threshold", "block_size"}

\* C10: with an invalid configuration betteria() raises ValueError having
\* created no directory, invoked no tool and written no file; a valid one,
\* whatever the block size when adaptive mode is off, raises no such error.
C10_ValidatedFirst ==
    (entry = "betteria" /\ pc # "validate") =>
        /\ InvalidConfig(args) =>
              /\ pc = "done"
              /\ exc = KeyboardInterrupt
                 \/ (exc.type = "ValueError" /\ exc.what \in ConfigErrors)
              /\ calls = NoCalls
              /\ pages_dir = NoDir
              /\ tiff_dir = NoDir
              /\ output = output0
        /\ ~InvalidConfig(args) => exc.what \notin ConfigErrors

C10_Witness ==
    /\ entry = "betteria"
    /\ pc = "done"
    /\ args.use_adaptive
    /\ args.block_size = 4
    /\ exc = SimpleExc("ValueError", "block_size")

\* the worker count asked for: jobs, or the detected CPU count for jobs <= 0
Requested == IF args.jobs > 0 THEN args.jobs ELSE cpu_count

\* positions of the main thread inside pdf_to_images() after line 226
SingleModePcs == {"popen", "wait", "int_wait", "int_read", "stderr"}
PoolModePcs == {"submit", "loop", "pool_exit"}
RasterPcs == SingleModePcs \cup PoolModePcs \cup {"glob", "check"}

\* positions inside betteria()'s binarization after line 462
WhitenPoolPcs == {"whiten_submit", "whiten_loop", "whiten_exit"}
WhitenPcs == WhitenPoolPcs \cup {"whiten_seq"}

\* C11: for a page count N >= 1 either fan-out works with
\* W = min(jobs if jobs > 0 else CPU count, N), which is at least 1 and at
\* most N; rasterization with W <= 1 is the single whole-document invocation
\* and otherwise the thread pool, binarization with W < 2 is the sequential
\* loop and otherwise the process pool, and a pool never has more than W
\* tasks in flight.
C11_WorkerCount ==
    /\ (pc \in RasterPcs /\ total_pages >= 1) =>
          /\ worker_target \in {Requested, total_pages}
          /\ worker_target <= Requested
          /\ worker_target <= total_pages
          /\ worker_target >= 1
          /\ (worker_target <= 1) <=>
                (pc \in SingleModePcs \/ (pc \notin PoolModePcs /\ ~MultiWorker))
          /\ worker_target <= 1 => \A p \in 1..(MaxPages + 1) : calls.run[p] = 0
          /\ worker_target > 1 => calls.popen = 0
          /\ calls.popen <= 1
          /\ Cardinality(Running(futures)) <= worker_target
    /\ pc \in WhitenPcs =>
          /\ Len(png_paths) >= 1
          /\ worker_target \in {Requested, Len(png_paths)}
          /\ worker_target <= Requested
          /\ worker_target <= Len(png_paths)
          /\ worker_target >= 1
          /\ (worker_target < 2) <=> (pc = "whiten_seq")
          /\ pc = "whiten_seq" => wfutures = <<>>
          /\ Cardinality(Running(wfutures)) <= worker_target
    /\ Running(futures) # {} => Cardinality(Running(futures)) <= worker_target
    /\ Running(wfutures) # {} =>
          Cardinality(Running(wfutures)) <= worker_target

C11_Witness ==
    /\ pc = "whiten_loop"
    /\ args.jobs = 0
    /\ MultiWorker
    /\ Len(png_paths) = 3
    /\ worker_target = 2
    /\ Cardinality(Running(wfutures)) = worker_target
    /\ Pending(wfutures) # {}

\* C12 (as claimed): single-worker mode starts one subprocess; a wait that
\* times out while the subprocess is still running is not a failure, the
\* caller goes on waiting until the subprocess has exited, and a call that
\* returns after exit code 0 returns one path per page in page order.
C12_KeepsWaiting ==
    /\ calls.popen <= 1
    /\ exc.type # "TimeoutExpired"
    /\ (calls.popen = 1 /\ pc \notin {"wait", "int_wait"}) =>
          process.state = "exited"
    /\ (JustReturned /\ ~MultiWorker) =>
          /\ calls.popen = 1
          /\ process.returncode = 0
          /\ Len(png_paths) = total_pages
          /\ \A i \in 1..(Len(png_paths) - 1) :
                _page_sort_key(png_paths[i]) <= _page_sort_key(png_paths[i + 1])

\* every page image has been binarized successfully
AllWhitened ==
    /\ calls.whiten = Len(png_paths)
    /\ \/ wfutures = <<>> /\ whitened = Len(png_paths)
       \/ /\ DOMAIN wfutures = 1..Len(png_paths)
          /\ \A i \in DOMAIN wfutures : wfutures[i] = "ok"

\* C13: a page is binarized only after pdf_to_images() has returned with
\* its count check passed and every rasterizer task over; the Packer is
\* called at most once, only after every page has been binarized
\* successfully, with one binarized image per page image in the order of
\* the page images.
C13_StageOrder ==
    /\ calls.whiten > 0 =>
          /\ entry = "betteria"
          /\ pc \notin RasterPcs \cup {"validate", "paths", "enter_pages",
                                      "enter_tiff", "mkdir", "count", "workers",
                                      "tiff_paths"}
          /\ Len(png_paths) = total_pages
          /\ Len(tiff_paths) = Len(png_paths)
          /\ Unfinished(futures) = {}
          /\ \A p \in DOMAIN futures : futures[p] = "ok"
          /\ process.state # "running"
    /\ calls.packer <= 1
    /\ calls.packer = 1 =>
          /\ pc \in {"pack_write", "exit_tiff", "exit_pages", "done"}
          /\ AllWhitened
          /\ Len(tiff_paths) = Len(png_paths)
          /\ Len(tiff_paths) >= 1
          /\ \A i \in 1..Len(tiff_paths) :
                /\ tiff_paths[i] = stem(png_paths[i]) \o TIFF
                /\ _page_sort_key(tiff_paths[i]) = _page_sort_key(png_paths[i])
          /\ \A i, j \in 1..Len(tiff_paths) :
                i # j => tiff_paths[i] # tiff_paths[j]
          /\ pc = "pack_write" =>
                \A i \in 1..Len(tiff_paths) : tiff_paths[i] \in tiff_dir.files
    /\ pc \in {"pack", "pack_write"} => exc = NoExc /\ AllWhitened

C13_Witness ==
    /\ pc = "pack_write"
    /\ calls.packer = 1
    /\ DOMAIN wfutures = 1..3
    /\ pad = 2
    /\ MultiWorker

\* the pipeline has failed: the exception is on its way to the caller
Unwinding == {"pool_exit", "whiten_exit", "exit_tiff", "exit_pages", "done"}

RasterFailures ==
    {"input", "missing", "failed", "no_pages_line", "rasterizer_missing",
     "rasterizer_failed", "interrupted", "mismatch"}

\* every step is run at most once, a failed run is on its way out
InvokedOnce ==
    /\ \A p \in 1..(MaxPages + 1) : calls.run[p] <= 1
    /\ \A p \in 1..(MaxPages + 1) :
          calls.run[p] = 1 <=>
              (p \in DOMAIN futures /\ futures[p] \notin {"pending", "cancelled"})
    /\ (MultiWorker /\ JustReturned) =>
          /\ \A p \in 1..total_pages : calls.run[p] = 1 /\ futures[p] = "ok"
          /\ \A p \in 1..(MaxPages + 1) : p > total_pages => calls.run[p] = 0
          /\ calls.popen = 0
    /\ (MultiWorker /\ entry = "betteria") =>
          \A q \in 1..(MaxPages + 1) :
              PageFile(q, pad) \in pages_dir.files =>
                  q \in DOMAIN futures /\ futures[q] = "ok"
    /\ calls.pdfinfo <= 1
    /\ calls.popen <= 1
    /\ calls.packer <= 1
    /\ calls.mkdtemp <= 2
    /\ calls.whiten <= Len(png_paths)
    /\ wfutures = <<>> => calls.whiten <= whitened + 1
    /\ exc # NoExc =>
          /\ pc \in Unwinding
          /\ exc.what \in RasterFailures => calls.whiten = 0 /\ calls.packer = 0
          /\ exc.what = "whiten_failed" => calls.packer = 0
          /\ output # "pdf" \/ exc.what = "img2pdf"
          /\ Pending(futures) = {}

\* once a step has failed, the error stays and nothing of the rasterization
\* or the packing is started again
FailureIsFinal ==
    [][exc # NoExc =>
          /\ exc' # NoExc
          /\ calls'.run = calls.run
          /\ calls'.popen = calls.popen
          /\ calls'.pdfinfo = calls.pdfinfo
          /\ calls'.packer = calls.packer
          /\ output' = output]_vars

\* C14: the per-page tool is invoked at most once per page, exactly once for
\* each page 1..N of a multi-worker run that succeeds, and with that page
\* as its whole range; no other step is run twice; once a step has failed
\* the run keeps its error, starts no further rasterizer invocation and no
\* later stage, and ends without a finished output.
C14_NoRetry ==
    []InvokedOnce /\ FailureIsFinal

C14_Witness ==
    /\ MultiWorker
    /\ JustReturned
    /\ total_pages = 3
    /\ worker_target = 2
    /\ \A p \in 1..3 : calls.run[p] = 1

\* positions of the main thread inside pdf_to_images()
InPdfToImages == RasterPcs \cup {"mkdir", "count", "workers"}

\* a rasterizer invocation is running
RasterizerRunning == process.state = "running" \/ Running(futures) # {}

\* C15 (as claimed): outside pdf_to_images() no rasterizer invocation it
\* started is running, whether it returned or raised, so the raster pages
\* directory is never removed under a running rasterizer.
C15_NoneLeftRunning ==
    pc \notin InPdfToImages => ~RasterizerRunning

====
